---- MODULE Spec2Model ----
(***************************************************************************)
(* A model of libsupport: the configuration store of config.c (three       *)
(* dictionaries, defaults / overrides / config, behind one readers-writer  *)
(* lock) and the part of the logger of log.c that the store calls into.    *)
(*                                                                         *)
(* Spec        one caller; every API call is one action.                   *)
(* SpecMT      several threads; every call is split at the points where    *)
(*             it takes or releases config_lock.                           *)
(***************************************************************************)
EXTENDS Integers, Sequences, FiniteSets, TLC

VARIABLES
    defaults,        \* static dictionary *defaults   (config.c:30)
    overrides,       \* static dictionary *overrides  (config.c:31)
    config,          \* static dictionary *config     (config.c:32)
    log_is_open,     \* static int log_is_open        (log.c:27)
    log_use_config,  \* static int log_use_config     (log.c:27)
    log_stderr,      \* static int log_stderr         (log.c:27)
    log_level,       \* static int log_level          (log.c:27)
    log_facility,    \* static int log_facility       (log.c:27)
    log_syslog,      \* static int log_syslog         (log.c:27)
    log_ident,       \* const char *log_ident         (log.c:28)
    syslog_conn,     \* the connection openlog makes to the system log
    proc,            \* what became of the single caller of Spec
    last,            \* the call that returned last in Spec, with its result
    lock_writer,     \* config_lock: the thread holding it for writing
    lock_readers,    \* config_lock: read holds per thread
    pc,              \* SpecMT: position of every thread
    local,           \* SpecMT: arguments and locals of every thread's call
    calls            \* SpecMT: number of API calls made so far

vars == <<defaults, overrides, config, log_is_open, log_use_config,
          log_stderr, log_level, log_facility, log_syslog, log_ident, syslog_conn,
          proc, last, lock_writer, lock_readers, pc, local, calls>>

store == <<defaults, overrides, config>>
logVars == <<log_is_open, log_use_config, log_stderr, log_level, log_facility,
             log_syslog, log_ident, syslog_conn>>
seqVars == <<proc, last>>
mtVars == <<lock_writer, lock_readers, pc, local, calls>>

----------------------------------------------------------------------------
(* C strings and pointers *)

NULL == "NULL"                                    \* a null char *
NullKey == <<"NULL">>                             \* a null char * passed as a key
NullDict == <<[key |-> NullKey, val |-> NULL]>>   \* a null dictionary *
NUL == "NUL"            \* the terminating byte of a C string

\* Keys are C strings, kept as sequences of characters so that the
\* comparisons of config_get_all can be modelled byte by byte.
ConfigFileKey == <<"g","l","o","b","a","l",":","c","o","n","f","i","g","F","i","l","e">>
KeyAX == <<"a",":","x">>
KeyAY == <<"a",":","y">>
KeyABX == <<"a","b",":","x">>
SecA == <<"a">>
SecAB == <<"a","b">>
SecGlobal == <<"g","l","o","b","a","l">>

Keys == {ConfigFileKey, KeyAX, KeyAY, KeyABX}

\* the (key, value) arguments the caller passes to config_set
SetInputs == {<<ConfigFileKey, "/etc/b.conf">>, <<KeyAX, "o1">>, <<KeyAX, "o2">>}
\* the (key, value) arguments the caller passes to config_set_default
DefaultInputs == {<<KeyAX, "d2">>, <<KeyAY, "d3">>}
\* default_path arguments of config_load
DefaultPaths == {"/etc/x.conf", "/etc/a.conf"}
\* defval arguments of the lookups
Fallbacks == {NULL, "/etc/x.conf"}

Entry(k, v) == [key |-> k, val |-> v]

\* What the INI parser makes of each path: NULL when the file is missing or
\* does not parse, else the dictionary (a section is an entry without value).
ParsedFile(path) ==
    CASE path = "/etc/a.conf" ->
            <<Entry(SecA, NULL), Entry(KeyAX, "f1"), Entry(SecAB, NULL), Entry(KeyABX, "f2")>>
      [] path = "/etc/b.conf" ->
            <<Entry(SecA, NULL), Entry(KeyAY, "f3")>>
      [] OTHER -> NullDict

----------------------------------------------------------------------------
(* The INI parsing collaborator *)

HasKey(d, key) == d # NullDict /\ \E i \in 1..Len(d) : d[i].key = key

IndexOf(d, key) == CHOOSE i \in 1..Len(d) : d[i].key = key

iniparser_getstring(d, key, def) ==
    IF HasKey(d, key) THEN d[IndexOf(d, key)].val ELSE def

iniparser_set(d, key, val) ==
    IF d = NullDict THEN NullDict
    ELSE IF HasKey(d, key) THEN [d EXCEPT ![IndexOf(d, key)].val = val]
    ELSE Append(d, Entry(key, val))

iniparser_load(file) == ParsedFile(file)

dictionary_new == <<>>

----------------------------------------------------------------------------
(* config.c: pure parts *)

\* mutant: the pending overrides are consulted before config
config_get_unlocked_overrides_first(key, defval) ==
    IF overrides # NullDict
    THEN iniparser_getstring(overrides, key, iniparser_getstring(defaults, key, defval))
    ELSE iniparser_getstring(config, key, iniparser_getstring(defaults, key, defval))

\* mutant: the caller's fallback is not passed on
config_get_unlocked_no_fallback(key, defval) ==
    IF config # NullDict
    THEN iniparser_getstring(config, key, iniparser_getstring(defaults, key, NULL))
    ELSE iniparser_getstring(overrides, key, iniparser_getstring(defaults, key, NULL))

config_get_unlocked_(key, defval) ==
    IF config # NullDict
    THEN iniparser_getstring(config, key, iniparser_getstring(defaults, key, defval))
    ELSE iniparser_getstring(overrides, key, iniparser_getstring(defaults, key, defval))

\* the body of config_set on given dictionaries: the new <<overrides, config>>
set_in(ovr, cfg, key, value) ==
    IF ovr # NullDict
    THEN <<iniparser_set(ovr, key, value), cfg>>
    ELSE <<ovr, iniparser_set(cfg, key, value)>>

\* mutant: a default already recorded is not replaced
set_default_in_if_absent(dfl, cfg, key, value) ==
    IF dfl # NullDict
    THEN <<IF HasKey(dfl, key) THEN dfl ELSE iniparser_set(dfl, key, value), cfg>>
    ELSE IF iniparser_getstring(cfg, key, NULL) = NULL
         THEN <<dfl, iniparser_set(cfg, key, value)>>
         ELSE <<dfl, cfg>>

\* the body of config_set_default on given dictionaries: the new
\* <<defaults, config>>
set_default_in(dfl, cfg, key, value) ==
    IF dfl # NullDict
    THEN <<iniparser_set(dfl, key, value), cfg>>
    ELSE IF iniparser_getstring(cfg, key, NULL) = NULL
         THEN <<dfl, iniparser_set(cfg, key, value)>>
         ELSE <<dfl, cfg>>

\* the locked part of config_init: alloc tells which dictionary_new fails
init_store(dfl, ovr, alloc) ==
    CASE alloc = "no_defaults" ->
            [defaults |-> NullDict, overrides |-> ovr, ret |-> -1]
      [] alloc = "no_overrides" ->
            [defaults |-> dictionary_new, overrides |-> NullDict, ret |-> -1]
      [] OTHER ->
            [defaults |-> dictionary_new, overrides |-> dictionary_new, ret |-> 0]

\* mutant: an override does not replace a value the file defines
RECURSIVE merge_overrides_file_wins(_, _, _)
merge_overrides_file_wins(cfg, ovr, n) ==
    IF n > Len(ovr) THEN cfg
    ELSE merge_overrides_file_wins(
            IF HasKey(cfg, ovr[n].key) THEN cfg
            ELSE iniparser_set(cfg, ovr[n].key, ovr[n].val), ovr, n + 1)

\* the merge loop of config_load: every override is written into cfg
RECURSIVE merge_overrides(_, _, _)
merge_overrides(cfg, ovr, n) ==
    IF n > Len(ovr) THEN cfg
    ELSE merge_overrides(iniparser_set(cfg, ovr[n].key, ovr[n].val), ovr, n + 1)

\* mutant: the overrides are freed on the failure path too
load_store_frees_overrides(parsed, ovr) ==
    IF parsed = NullDict
    THEN [config |-> NullDict, overrides |-> NullDict, ret |-> -1, crash |-> FALSE]
    ELSE IF ovr = NullDict
    THEN [config |-> parsed, overrides |-> ovr, ret |-> 0, crash |-> TRUE]
    ELSE [config |-> merge_overrides(parsed, ovr, 1), overrides |-> NullDict,
          ret |-> 0, crash |-> FALSE]

\* config_load from the assignment of config on: parsed is the result of
\* iniparser_load. crash: overrides->n reads through a null pointer, and the
\* call never returns.
load_store(parsed, ovr) ==
    IF parsed = NullDict
    THEN [config |-> NullDict, overrides |-> ovr, ret |-> -1, crash |-> FALSE]
    ELSE IF ovr = NullDict
    THEN [config |-> parsed, overrides |-> ovr, ret |-> 0, crash |-> TRUE]
    ELSE [config |-> merge_overrides(parsed, ovr, 1), overrides |-> NullDict,
          ret |-> 0, crash |-> FALSE]

\* C string primitives
CharAt(s, i) == IF i <= Len(s) THEN s[i] ELSE NUL

strncmp_eq(s1, s2, n) == \A i \in 1..n : CharAt(s1, i) = CharAt(s2, i)

strcmp_eq(s1, s2) == s1 = s2

StrFrom(s, i) == SubSeq(s, i, Len(s))

\* mutant: the byte after the section name is not compared with ':'
section_match_no_colon(k, section, key) ==
    LET l == Len(section) IN
    /\ strncmp_eq(k, section, l)
    /\ (key = NullKey \/ strcmp_eq(StrFrom(k, l + 2), key))

\* the test config_get_all applies to the entry key k (l = strlen(section))
section_match(k, section, key) ==
    LET l == Len(section) IN
    /\ strncmp_eq(k, section, l)
    /\ CharAt(k, l + 1) = ":"
    /\ (key = NullKey \/ strcmp_eq(StrFrom(k, l + 2), key))

\* A callback of config_get_all is modelled by the set of entry keys for
\* which it returns non-zero.
fn_result(fn, k, v) == IF k \in fn THEN 1 ELSE 0

\* the loop of config_get_all from index c on; visited is the sequence of
\* callback invocations made so far
RECURSIVE get_all_loop(_, _, _, _, _, _)
get_all_loop(dict, c, section, key, fn, visited) ==
    IF c > Len(dict) THEN [ret |-> 0, visited |-> visited]
    ELSE IF section_match(dict[c].key, section, key)
         THEN IF fn_result(fn, dict[c].key, dict[c].val) # 0
              THEN [ret |-> -1, visited |-> Append(visited, dict[c])]
              ELSE get_all_loop(dict, c + 1, section, key, fn, Append(visited, dict[c]))
         ELSE get_all_loop(dict, c + 1, section, key, fn, visited)

----------------------------------------------------------------------------
(* C strings as bytes: <ctype.h>, atoi, strcasecmp, strncpy *)

\* The bytes of the C strings of the model, without the terminating NUL.
Bytes(s) ==
    CASE s = "f1" -> <<"f", "1">>
      [] s = "f2" -> <<"f", "2">>
      [] s = "f3" -> <<"f", "3">>
      [] s = "o1" -> <<"o", "1">>
      [] s = "o2" -> <<"o", "2">>
      [] s = "d1" -> <<"d", "1">>
      [] s = "d2" -> <<"d", "2">>
      [] s = "d3" -> <<"d", "3">>
      [] s = "/etc/x.conf" -> <<"/", "e", "t", "c", "/", "x", ".", "c", "o", "n", "f">>
      [] s = "/etc/a.conf" -> <<"/", "e", "t", "c", "/", "a", ".", "c", "o", "n", "f">>
      [] s = "/etc/b.conf" -> <<"/", "e", "t", "c", "/", "b", ".", "c", "o", "n", "f">>
      [] s = "notice" -> <<"n", "o", "t", "i", "c", "e">>
      [] s = "user" -> <<"u", "s", "e", "r">>
      [] s = "(none)" -> <<"(", "n", "o", "n", "e", ")">>
      [] s = "(unknown)" -> <<"(", "u", "n", "k", "n", "o", "w", "n", ")">>
      [] s = "app" -> <<"a", "p", "p">>
      [] s = "debug" -> <<"d", "e", "b", "u", "g">>
      [] s = "Debug" -> <<"D", "e", "b", "u", "g">>
      [] s = "err" -> <<"e", "r", "r">>
      [] s = "local0" -> <<"l", "o", "c", "a", "l", "0">>
      [] s = "7" -> <<"7">>
      [] s = "x7" -> <<"x", "7">>
      [] s = "Y" -> <<"Y">>
      [] s = "yes" -> <<"y", "e", "s">>
      [] s = "T" -> <<"T">>
      [] s = "true" -> <<"t", "r", "u", "e">>
      [] s = "1" -> <<"1">>
      [] s = "10" -> <<"1", "0">>
      [] s = "y" -> <<"y">>
      [] s = "t" -> <<"t">>
      [] s = "0" -> <<"0">>
      [] s = "no" -> <<"n", "o">>
      [] s = "false" -> <<"f", "a", "l", "s", "e">>
      [] s = "off" -> <<"o", "f", "f">>
      [] s = "2" -> <<"2">>
      [] s = "-1" -> <<"-", "1">>
      [] s = " 3" -> <<" ", "3">>
      [] s = "+0" -> <<"+", "0">>
      [] s = "007" -> <<"0", "0", "7">>
      [] s = "1e3" -> <<"1", "e", "3">>
      [] s = "" -> <<>>

LowerChars == <<"a","b","c","d","e","f","g","h","i","j","k","l","m",
                "n","o","p","q","r","s","t","u","v","w","x","y","z">>
UpperChars == <<"A","B","C","D","E","F","G","H","I","J","K","L","M",
                "N","O","P","Q","R","S","T","U","V","W","X","Y","Z">>
DigitChars == <<"0","1","2","3","4","5","6","7","8","9">>

toupper(c) ==
    IF \E i \in 1..26 : LowerChars[i] = c
    THEN UpperChars[CHOOSE i \in 1..26 : LowerChars[i] = c]
    ELSE c

isdigit(c) == \E i \in 1..10 : DigitChars[i] = c

DigitValue(c) == (CHOOSE i \in 1..10 : DigitChars[i] = c) - 1

isspace(c) == c \in {" ", "\t", "\n"}

\* the digits of s from position i on, continuing the value acc
RECURSIVE atoi_digits(_, _, _)
atoi_digits(s, i, acc) ==
    IF isdigit(CharAt(s, i))
    THEN atoi_digits(s, i + 1, 10 * acc + DigitValue(CharAt(s, i)))
    ELSE acc

RECURSIVE atoi_from(_, _)
atoi_from(s, i) ==
    IF isspace(CharAt(s, i)) THEN atoi_from(s, i + 1)
    ELSE IF CharAt(s, i) = "-" THEN 0 - atoi_digits(s, i + 1, 0)
    ELSE IF CharAt(s, i) = "+" THEN atoi_digits(s, i + 1, 0)
    ELSE atoi_digits(s, i, 0)

\* atoi on the bytes s: white space, an optional sign, then the decimal
\* digits up to the first other byte (the values of the model fit an int)
atoi(s) == atoi_from(s, 1)

strcasecmp_eq(s1, s2) ==
    /\ Len(s1) = Len(s2)
    /\ \A i \in 1..Len(s1) : toupper(s1[i]) = toupper(s2[i])

\* a byte of a buffer that was never written
Uninit == "uninit"

\* strncpy(buf, src, n): the first n bytes of src, padded with NUL bytes
strncpy(src, n) == [i \in 1..n |-> CharAt(src, i)]

\* the C string a buffer holds: its bytes before the first NUL
RECURSIVE CStringFrom(_, _)
CStringFrom(buf, i) ==
    IF i > Len(buf) \/ buf[i] = NUL THEN <<>>
    ELSE <<buf[i]>> \o CStringFrom(buf, i + 1)

CString(buf) == CStringFrom(buf, 1)

----------------------------------------------------------------------------
(* config.c: the lookups, on the current store *)

\* mutant: the last byte of the buffer is not set to NUL
config_get_no_terminator(key, defval, has_buf, bufsize) ==
    LET ret == config_get_unlocked_(key, defval)
        r == IF ret # NULL THEN Len(Bytes(ret)) + 1 ELSE 0
    IN IF ~has_buf \/ bufsize = 0
       THEN [r |-> r, filled |-> FALSE, buf |-> <<>>]
       ELSE [r |-> r, filled |-> TRUE,
             buf |-> IF ret # NULL THEN strncpy(Bytes(ret), bufsize)
                     ELSE [i \in 1..bufsize |-> IF i = 1 THEN NUL ELSE Uninit]]

\* config_get: r is the value returned, buf the bufsize bytes of the
\* caller's buffer afterwards (filled tells whether there was a buffer)
config_get_(key, defval, has_buf, bufsize) ==
    LET ret == config_get_unlocked_(key, defval)
        r == IF ret # NULL THEN Len(Bytes(ret)) + 1 ELSE 0
        copied == IF ret # NULL THEN strncpy(Bytes(ret), bufsize)
                  ELSE [i \in 1..bufsize |-> IF i = 1 THEN NUL ELSE Uninit]
    IN IF ~has_buf \/ bufsize = 0
       THEN [r |-> r, filled |-> FALSE, buf |-> <<>>]
       ELSE [r |-> r, filled |-> TRUE, buf |-> [copied EXCEPT ![bufsize] = NUL]]

\* config_geta: the copy strdup makes of the bytes up to the NUL, or NULL
config_geta_(key, defval) ==
    LET ret == config_get_unlocked_(key, defval)
    IN IF ret # NULL THEN [null |-> FALSE, str |-> CString(Bytes(ret) \o <<NUL>>)]
       ELSE [null |-> TRUE, str |-> <<>>]

config_get_int_(key, defval) ==
    LET s == config_get_unlocked_(key, NULL)
    IN IF s # NULL THEN atoi(Bytes(s)) ELSE defval

\* mutant: the first byte is compared without toupper
config_get_bool_case_sensitive(key, defval) ==
    LET s == config_get_unlocked_(key, NULL)
        c == CharAt(Bytes(s), 1)
        r == IF s # NULL
             THEN IF c = "Y" \/ c = "T" \/ c = "1" THEN -1 ELSE atoi(Bytes(s))
             ELSE defval
    IN IF r # 0 THEN -1 ELSE 0

config_get_bool_(key, defval) ==
    LET s == config_get_unlocked_(key, NULL)
        c == toupper(CharAt(Bytes(s), 1))
        r == IF s # NULL
             THEN IF c = "Y" \/ c = "T" \/ c = "1" THEN -1 ELSE atoi(Bytes(s))
             ELSE defval
    IN IF r # 0 THEN -1 ELSE 0

----------------------------------------------------------------------------
(* log.c: pure parts *)

\* <syslog.h>
LOG_EMERG == 0
LOG_ERR == 3
LOG_NOTICE == 5
LOG_INFO == 6
LOG_DEBUG == 7
LOG_USER == 8
LOG_DAEMON == 24
LOG_LOCAL0 == 128

\* char buf[32] of log_open
LogBufSize == 32

KeyLogStderr == <<"l", "o", "g", ":", "s", "t", "d", "e", "r", "r">>
KeyLogSyslog == <<"l", "o", "g", ":", "s", "y", "s", "l", "o", "g">>
KeyLogLevel == <<"l", "o", "g", ":", "l", "e", "v", "e", "l">>
KeyLogFacility == <<"l", "o", "g", ":", "f", "a", "c", "i", "l", "i", "t", "y">>
KeyLogIdent == <<"l", "o", "g", ":", "i", "d", "e", "n", "t">>

LevelNames ==
    << <<<<"e", "m", "e", "r", "g">>, 0>>,
       <<<<"e", "m", "e", "r", "g", "e", "n", "c", "y">>, 0>>,
       <<<<"a", "l", "e", "r", "t">>, 1>>,
       <<<<"c", "r", "i", "t">>, 2>>,
       <<<<"c", "r", "i", "t", "i", "c", "a", "l">>, 2>>,
       <<<<"e", "r", "r">>, 3>>,
       <<<<"e", "r", "r", "o", "r">>, 3>>,
       <<<<"w", "a", "r", "n">>, 4>>,
       <<<<"w", "a", "r", "n", "i", "n", "g">>, 4>>,
       <<<<"n", "o", "t", "i", "c", "e">>, 5>>,
       <<<<"i", "n", "f", "o">>, 6>>,
       <<<<"d", "e", "b", "u", "g">>, 7>> >>

FacilityNames ==
    << <<<<"a", "u", "t", "h">>, 32>>,
       <<<<"a", "u", "t", "h", "p", "r", "i", "v">>, 80>>,
       <<<<"c", "r", "o", "n">>, 72>>,
       <<<<"d", "a", "e", "m", "o", "n">>, 24>>,
       <<<<"f", "t", "p">>, 88>>,
       <<<<"k", "e", "r", "n">>, 0>>,
       <<<<"l", "p", "r">>, 48>>,
       <<<<"m", "a", "i", "l">>, 16>>,
       <<<<"n", "e", "w", "s">>, 56>>,
       <<<<"s", "y", "s", "l", "o", "g">>, 40>>,
       <<<<"u", "u", "c", "p">>, 64>>,
       <<<<"u", "s", "e", "r">>, 8>>,
       <<<<"l", "o", "c", "a", "l", "0">>, 128>>,
       <<<<"l", "o", "c", "a", "l", "1">>, 136>>,
       <<<<"l", "o", "c", "a", "l", "2">>, 144>>,
       <<<<"l", "o", "c", "a", "l", "3">>, 152>>,
       <<<<"l", "o", "c", "a", "l", "4">>, 160>>,
       <<<<"l", "o", "c", "a", "l", "5">>, 168>>,
       <<<<"l", "o", "c", "a", "l", "6">>, 176>>,
       <<<<"l", "o", "c", "a", "l", "7">>, 184>> >>

RECURSIVE lookup_name(_, _, _, _)
lookup_name(table, name, i, otherwise) ==
    IF i > Len(table) THEN otherwise
    ELSE IF strcasecmp_eq(name, table[i][1]) THEN table[i][2]
    ELSE lookup_name(table, name, i + 1, otherwise)

log_parse_level(level) == lookup_name(LevelNames, level, 1, atoi(level))

log_parse_facility(facility) == lookup_name(FacilityNames, facility, 1, LOG_USER)

\* The connection to the system log that openlog makes and closelog ends:
\* ident is the string openlog was given and ident_in where it lives
\* ("static": a string of the caller; "stack": the buf of log_open).
ClosedConn ==
    [live |-> FALSE, ident |-> <<>>, ident_in |-> "static", perror |-> FALSE, facility |-> 0]

openlog(ident, ident_in, perror, facility) ==
    [live |-> TRUE, ident |-> ident, ident_in |-> ident_in, perror |-> perror,
     facility |-> facility]

\* the Logger state as one record
Logger ==
    [is_open |-> log_is_open, use_config |-> log_use_config, stderr |-> log_stderr,
     level |-> log_level, facility |-> log_facility, syslog |-> log_syslog,
     ident |-> log_ident, conn |-> syslog_conn]

SetLogger(L) ==
    /\ log_is_open' = L.is_open
    /\ log_use_config' = L.use_config
    /\ log_stderr' = L.stderr
    /\ log_level' = L.level
    /\ log_facility' = L.facility
    /\ log_syslog' = L.syslog
    /\ log_ident' = L.ident
    /\ syslog_conn' = L.conn

\* log_reset
log_reset_(L) ==
    [L EXCEPT !.conn = IF L.is_open /\ L.syslog # 0 THEN ClosedConn ELSE @,
              !.is_open = FALSE]

\* mutant: the channel is left open
log_set_skips_reset(L, field, val) ==
    [[L EXCEPT !.use_config = FALSE] EXCEPT ![field] = val]

\* log_set_ident, log_set_level, log_set_facility, log_set_stderr and
\* log_set_syslog: field is the Logger field the setter writes
log_set(L, field, val) ==
    log_reset_([[L EXCEPT !.use_config = FALSE] EXCEPT ![field] = val])

\* mutant: the channel is closed even when the value is the same
log_set_use_config_always_resets(L, val) ==
    log_reset_([L EXCEPT !.use_config = val])

log_set_use_config_(L, val) ==
    IF L.use_config = val THEN L
    ELSE log_reset_([L EXCEPT !.use_config = val])

\* log_open with log_use_config set: the n-th read of the store, in the
\* order of the code, written to its Logger field (the fifth fills buf only)
log_open_read(L, n) ==
    CASE n = 1 -> [L EXCEPT !.stderr = config_get_bool_(KeyLogStderr, 0)]
      [] n = 2 -> [L EXCEPT !.syslog = config_get_bool_(KeyLogSyslog, 1)]
      [] n = 3 -> [L EXCEPT !.level =
                      log_parse_level(CString(config_get_(KeyLogLevel, "notice",
                                                          TRUE, LogBufSize).buf))]
      [] n = 4 -> [L EXCEPT !.facility =
                      log_parse_facility(CString(config_get_(KeyLogFacility, "user",
                                                             TRUE, LogBufSize).buf))]
      [] OTHER -> L

\* buf after config_get("log:ident", "(none)", buf, sizeof(buf))
log_open_ident_buf == CString(config_get_(KeyLogIdent, "(none)", TRUE, LogBufSize).buf)

\* log_open from "if(log_stderr)" on
log_open_finish(L, ident, ident_in) ==
    [L EXCEPT !.conn = IF L.syslog # 0
                       THEN openlog(ident, ident_in, L.stderr # 0, L.facility)
                       ELSE @,
              !.is_open = TRUE]

\* log_open, all its reads made on the current store
log_open(L) ==
    LET L0 == IF L.is_open THEN log_reset_(L) ELSE L IN
    IF L0.use_config
    THEN log_open_finish(
            log_open_read(log_open_read(log_open_read(log_open_read(L0, 1), 2), 3), 4),
            log_open_ident_buf, "stack")
    ELSE log_open_finish(L0, Bytes(L0.ident), "static")

\* what a byte string reads as once the frame it lived in has returned
Garbage == <<"?">>
DanglingOutcomes == {"intact", "clobbered"}

\* mutant: the level test is inverted
log_deliver_inverted(L, level, dangling) ==
    IF level < L.level THEN <<>>
    ELSE IF L.syslog # 0
    THEN <<[to |-> "syslog", level |-> level, prefix |-> NULL,
            tag |-> IF L.conn.ident_in = "stack" /\ dangling = "clobbered"
                    THEN Garbage ELSE L.conn.ident]>>
    ELSE <<[to |-> "stderr", level |-> level, prefix |-> L.ident, tag |-> <<>>]>>

\* log_vprintf after the channel is open: the messages delivered (none, or
\* one); tag is the ident the system log reads through the pointer openlog
\* kept
log_deliver(L, level, dangling) ==
    IF level > L.level THEN <<>>
    ELSE IF L.syslog # 0
    THEN <<[to |-> "syslog", level |-> level, prefix |-> NULL,
            tag |-> IF L.conn.ident_in = "stack" /\ dangling = "clobbered"
                    THEN Garbage ELSE L.conn.ident]>>
    ELSE <<[to |-> "stderr", level |-> level, prefix |-> L.ident, tag |-> <<>>]>>

\* the Logger after log_vprintf has made sure the channel is open
log_ensure_open(L) == IF ~L.is_open THEN log_open(L) ELSE L

----------------------------------------------------------------------------
(* Inputs of the calls *)

\* A defaults callback of config_init: the config_set_default calls it makes
\* and the value it returns.
NoCallback == [null |-> TRUE, sets |-> <<>>, rc |-> 0]

DefaultsCallbacks ==
    { NoCallback,
      [null |-> FALSE, sets |-> <<>>, rc |-> 1],
      [null |-> FALSE, sets |-> <<Entry(KeyAX, "d1")>>, rc |-> 0] }

\* outcome of the two dictionary_new calls of config_init
AllocOutcomes == {"ok", "no_defaults", "no_overrides"}

\* pthread_rwlock_rdlock by the thread that holds the write lock: POSIX lets
\* it deadlock or fail with EDEADLK (the callers ignore the result).
RdlockOutcomes == {"deadlock", "EDEADLK"}

\* pthread_rwlock_unlock by a thread that holds nothing: undefined; it
\* either returns without effect or corrupts the lock.
UnlockOutcomes == {"ignored", "corrupt"}

\* the (key, defval) arguments of the lookups
LookupInputs ==
    {<<ConfigFileKey, "/etc/x.conf">>, <<KeyAX, NULL>>,
     <<KeyAY, "/etc/x.conf">>, <<KeyABX, "/etc/x.conf">>}

\* the (section, key, fn) arguments of config_get_all
GetAllInputs ==
    {<<SecA, NullKey, {}>>, <<SecA, NullKey, {KeyAX}>>, <<SecA, <<"x">>, {}>>,
     <<SecAB, NullKey, {}>>, <<SecGlobal, NullKey, {}>>}

----------------------------------------------------------------------------
(* Spec: one caller, one action per call *)

Returned(op, ret) == [op |-> op, ret |-> ret]

RECURSIVE run_defaults_cb(_, _, _)
run_defaults_cb(dfl, cfg, sets) ==
    IF sets = <<>> THEN <<dfl, cfg>>
    ELSE LET r == set_default_in(dfl, cfg, Head(sets).key, Head(sets).val)
         IN run_defaults_cb(r[1], r[2], Tail(sets))

config_init(defaults_cb, alloc) ==
    LET i == init_store(defaults, overrides, alloc)
        \* the callback runs after the unlock, and only if both allocations
        \* succeeded
        r == IF i.ret = 0 /\ ~defaults_cb.null
             THEN run_defaults_cb(i.defaults, config, defaults_cb.sets)
             ELSE <<i.defaults, config>>
    IN
    /\ proc = "running"
    /\ defaults' = r[1]
    /\ config' = r[2]
    /\ overrides' = i.overrides
    /\ last' = Returned("config_init",
                  IF i.ret = 0 /\ ~defaults_cb.null /\ defaults_cb.rc # 0 THEN -1 ELSE i.ret)
    /\ UNCHANGED <<logVars, proc, mtVars>>

config_load(default_path, rdlock, unlock) ==
    LET file == config_get_unlocked_(ConfigFileKey, default_path)
        \* log_printf opens the channel, and log_open then reads the store
        \* through config_get_bool while this thread holds the write lock
        nested == ~log_is_open /\ log_use_config
        r == load_store(iniparser_load(file), overrides)
    IN
    /\ proc = "running"
    /\ IF nested /\ rdlock = "deadlock"
       THEN /\ proc' = "hung"
            /\ UNCHANGED <<store, logVars, last>>
       ELSE /\ SetLogger(log_ensure_open(Logger))
            /\ config' = r.config
            /\ overrides' = r.overrides
            /\ UNCHANGED defaults
            /\ IF r.crash
               THEN proc' = "crashed" /\ UNCHANGED last
               ELSE /\ last' = [op |-> "config_load", default_path |-> default_path,
                                 ret |-> r.ret]
                    \* after EDEADLK the nested unlock has released the write
                    \* lock, and the final unlock finds the lock not held
                    /\ proc' = IF nested /\ unlock = "corrupt" THEN "undefined" ELSE "running"
    /\ UNCHANGED mtVars

config_set(key, value) ==
    LET r == set_in(overrides, config, key, value) IN
    /\ proc = "running"
    /\ overrides' = r[1]
    /\ config' = r[2]
    /\ last' = [op |-> "config_set", key |-> key, value |-> value, ret |-> 0]
    /\ UNCHANGED <<defaults, logVars, proc, mtVars>>

config_set_default(key, value) ==
    LET r == set_default_in(defaults, config, key, value) IN
    /\ proc = "running"
    /\ defaults' = r[1]
    /\ config' = r[2]
    /\ last' = [op |-> "config_set_default", key |-> key, value |-> value, ret |-> 0]
    /\ UNCHANGED <<overrides, logVars, proc, mtVars>>

config_geta(key, defval) ==
    /\ proc = "running"
    /\ last' = [op |-> "config_geta", key |-> key, defval |-> defval,
                ret |-> config_get_unlocked_(key, defval)]
    /\ UNCHANGED <<store, logVars, proc, mtVars>>

config_get(key, defval, has_buf, bufsize) ==
    LET g == config_get_(key, defval, has_buf, bufsize) IN
    /\ proc = "running"
    /\ last' = [op |-> "config_get", key |-> key, defval |-> defval,
                has_buf |-> has_buf, bufsize |-> bufsize,
                ret |-> g.r, filled |-> g.filled, buf |-> g.buf]
    /\ UNCHANGED <<store, logVars, proc, mtVars>>

config_get_int(key, defval) ==
    /\ proc = "running"
    /\ last' = [op |-> "config_get_int", key |-> key, defval |-> defval,
                ret |-> config_get_int_(key, defval)]
    /\ UNCHANGED <<store, logVars, proc, mtVars>>

config_get_bool(key, defval) ==
    /\ proc = "running"
    /\ last' = [op |-> "config_get_bool", key |-> key, defval |-> defval,
                ret |-> config_get_bool_(key, defval)]
    /\ UNCHANGED <<store, logVars, proc, mtVars>>

config_get_all(section, key, fn) ==
    LET dict == IF config # NullDict THEN config ELSE overrides IN
    /\ proc = "running"
    /\ IF dict = NullDict
       THEN \* dict->n reads through the null pointer
            proc' = "crashed" /\ UNCHANGED last
       ELSE LET r == get_all_loop(dict, 1, section, key, fn, <<>>) IN
            /\ last' = [op |-> "config_get_all", section |-> section, key |-> key,
                        fn |-> fn, ret |-> r.ret, visited |-> r.visited]
            /\ UNCHANGED proc
    /\ UNCHANGED <<store, logVars, mtVars>>

----------------------------------------------------------------------------
(* log.c: the part the store depends on *)

log_reset ==
    /\ proc = "running"
    /\ SetLogger(log_reset_(Logger))
    /\ last' = Returned("log_reset", 0)
    /\ UNCHANGED <<store, proc, mtVars>>

log_set_use_config(val) ==
    /\ proc = "running"
    /\ SetLogger(log_set_use_config_(Logger, val))
    /\ last' = [op |-> "log_set_use_config", val |-> val, ret |-> 0]
    /\ UNCHANGED <<store, proc, mtVars>>

log_set_ident(ident) ==
    /\ proc = "running"
    /\ SetLogger(log_set(Logger, "ident", ident))
    /\ last' = [op |-> "log_set_ident", val |-> ident, ret |-> 0]
    /\ UNCHANGED <<store, proc, mtVars>>

log_set_level(level) ==
    /\ proc = "running"
    /\ SetLogger(log_set(Logger, "level", level))
    /\ last' = [op |-> "log_set_level", val |-> level, ret |-> 0]
    /\ UNCHANGED <<store, proc, mtVars>>

log_set_facility(facility) ==
    /\ proc = "running"
    /\ SetLogger(log_set(Logger, "facility", facility))
    /\ last' = [op |-> "log_set_facility", val |-> facility, ret |-> 0]
    /\ UNCHANGED <<store, proc, mtVars>>

log_set_stderr(val) ==
    /\ proc = "running"
    /\ SetLogger(log_set(Logger, "stderr", val))
    /\ last' = [op |-> "log_set_stderr", val |-> val, ret |-> 0]
    /\ UNCHANGED <<store, proc, mtVars>>

log_set_syslog(val) ==
    /\ proc = "running"
    /\ SetLogger(log_set(Logger, "syslog", val))
    /\ last' = [op |-> "log_set_syslog", val |-> val, ret |-> 0]
    /\ UNCHANGED <<store, proc, mtVars>>

\* log_vprintf / log_printf: delivered is the messages that reached the
\* system log or standard error
log_vprintf(level, dangling) ==
    LET L == log_ensure_open(Logger) IN
    /\ proc = "running"
    /\ SetLogger(L)
    /\ last' = [op |-> "log_vprintf", level |-> level,
                delivered |-> log_deliver(L, level, dangling), ret |-> 0]
    /\ UNCHANGED <<store, proc, mtVars>>

----------------------------------------------------------------------------
(* SpecMT: threads, config_lock, and every call split at its lock operations *)

Threads == {"t1", "t2"}

\* the number of API calls the threads make in one run
MaxCalls == 5

Idle == [op |-> "none"]

\* the lookups log_open makes when log_use_config is set (log.c:144-150)
LogOpenKeys == <<KeyLogStderr, KeyLogSyslog, KeyLogLevel, KeyLogFacility, KeyLogIdent>>

\* inputs of the calls of SpecMT
MTSetInputs == {<<KeyAX, "o1">>}
MTDefaultInputs == {<<KeyAY, "d3">>}
MTCallbacks == {cb \in DefaultsCallbacks : cb.rc = 0}

\* pthread_rwlock_wrlock returns for thread t (it waits otherwise)
CanWrlock(t) ==
    lock_writer = NULL /\ \A u \in Threads : lock_readers[u] = 0

\* pthread_rwlock_rdlock returns with a read hold for thread t
CanRdlock(t) == lock_writer = NULL

\* pthread_rwlock_unlock by thread t: the write hold if t has it, else one
\* of its read holds; with no hold the behaviour is undefined (un)
Unlocked(t, un) ==
    IF lock_writer = t
    THEN [writer |-> NULL, readers |-> lock_readers]
    ELSE IF lock_readers[t] > 0
    THEN [writer |-> lock_writer, readers |-> [lock_readers EXCEPT ![t] = @ - 1]]
    ELSE IF un = "corrupt"
    THEN [writer |-> "corrupt", readers |-> lock_readers]
    ELSE [writer |-> lock_writer, readers |-> lock_readers]

Unlock(t, un) ==
    /\ lock_writer' = Unlocked(t, un).writer
    /\ lock_readers' = Unlocked(t, un).readers

Goto(t, label) == pc' = [pc EXCEPT ![t] = label]

SetLocal(t, rec) == local' = [local EXCEPT ![t] = rec]

Return(t) == Goto(t, "idle") /\ SetLocal(t, Idle)

\* a null pointer read ends the process
Alive == \A t \in Threads : pc[t] # "crashed"

\* thread t is at label
At(t, label) == Alive /\ pc[t] = label

\* thread t starts an API call
Enter(t) == At(t, "idle") /\ calls < MaxCalls /\ calls' = calls + 1

(* config_init *)

mt_init_lock(t, defaults_cb, alloc) ==
    /\ Enter(t)
    /\ CanWrlock(t)
    /\ lock_writer' = t
    /\ Goto(t, "init:locked")
    /\ SetLocal(t, [op |-> "config_init", cb |-> defaults_cb, alloc |-> alloc])
    /\ UNCHANGED <<store, logVars, seqVars, lock_readers>>

mt_init_body(t) ==
    LET i == init_store(defaults, overrides, local[t].alloc) IN
    /\ At(t, "init:locked")
    /\ defaults' = i.defaults
    /\ overrides' = i.overrides
    /\ Unlock(t, "ignored")
    /\ IF i.ret = 0 /\ ~local[t].cb.null
       THEN /\ Goto(t, "init:cb")
            /\ SetLocal(t, [op |-> "config_init", sets |-> local[t].cb.sets])
       ELSE Return(t)
    /\ UNCHANGED <<config, logVars, seqVars, calls>>

\* the defaults callback: its next config_set_default call, or its return
mt_init_cb(t) ==
    /\ At(t, "init:cb")
    /\ IF local[t].sets # <<>>
       THEN /\ Goto(t, "set_default:wrlock")
            /\ SetLocal(t, [op |-> "config_set_default",
                            key |-> Head(local[t].sets).key,
                            value |-> Head(local[t].sets).val,
                            sets |-> Tail(local[t].sets), after |-> "init:cb"])
       ELSE Return(t)
    /\ UNCHANGED <<store, logVars, seqVars, lock_writer, lock_readers, calls>>

(* config_set_default *)

mt_set_default_lock(t, key, value) ==
    /\ Enter(t)
    /\ CanWrlock(t)
    /\ lock_writer' = t
    /\ Goto(t, "set_default:locked")
    /\ SetLocal(t, [op |-> "config_set_default", key |-> key, value |-> value,
                    sets |-> <<>>, after |-> "idle"])
    /\ UNCHANGED <<store, logVars, seqVars, lock_readers>>

\* config_set_default called by the defaults callback takes the lock
mt_set_default_cb_lock(t) ==
    /\ At(t, "set_default:wrlock")
    /\ CanWrlock(t)
    /\ lock_writer' = t
    /\ Goto(t, "set_default:locked")
    /\ UNCHANGED <<store, logVars, seqVars, lock_readers, local, calls>>

mt_set_default_body(t) ==
    LET r == set_default_in(defaults, config, local[t].key, local[t].value) IN
    /\ At(t, "set_default:locked")
    /\ defaults' = r[1]
    /\ config' = r[2]
    /\ Unlock(t, "ignored")
    /\ IF local[t].after = "idle"
       THEN Return(t)
       ELSE /\ Goto(t, local[t].after)
            /\ SetLocal(t, [op |-> "config_init", sets |-> local[t].sets])
    /\ UNCHANGED <<overrides, logVars, seqVars, calls>>

(* config_set *)

mt_set_lock(t, key, value) ==
    /\ Enter(t)
    /\ CanWrlock(t)
    /\ lock_writer' = t
    /\ Goto(t, "set:locked")
    /\ SetLocal(t, [op |-> "config_set", key |-> key, value |-> value])
    /\ UNCHANGED <<store, logVars, seqVars, lock_readers>>

mt_set_body(t) ==
    LET r == set_in(overrides, config, local[t].key, local[t].value) IN
    /\ At(t, "set:locked")
    /\ overrides' = r[1]
    /\ config' = r[2]
    /\ Unlock(t, "ignored")
    /\ Return(t)
    /\ UNCHANGED <<defaults, logVars, seqVars, calls>>

(* config_load *)

mt_load_lock(t, default_path) ==
    /\ Enter(t)
    /\ CanWrlock(t)
    /\ lock_writer' = t
    /\ Goto(t, "load:locked")
    /\ SetLocal(t, [op |-> "config_load", default_path |-> default_path])
    /\ UNCHANGED <<store, logVars, seqVars, lock_readers>>

\* log_vprintf up to its level test: the channel is opened if it is closed;
\* with log_use_config set, log_open first reads its settings from the store
\* and the thread goes on at "log_open:rdlock", to come back at after
LogEmit(t, rec, after) ==
    IF log_is_open
    THEN Goto(t, after) /\ SetLocal(t, rec) /\ UNCHANGED logVars
    ELSE IF ~log_use_config
    THEN Goto(t, after) /\ SetLocal(t, rec) /\ SetLogger(log_open(Logger))
    ELSE /\ Goto(t, "log_open:rdlock")
         /\ SetLocal(t, [rec EXCEPT !.n = 1, !.after = after])
         /\ UNCHANGED logVars

\* file = config_get_unlocked_(...); log_printf(LOG_DEBUG, ...)
mt_load_log(t) ==
    /\ At(t, "load:locked")
    /\ LogEmit(t, [op |-> "config_load",
                   file |-> config_get_unlocked_(ConfigFileKey, local[t].default_path),
                   n |-> 0, after |-> "none"],
               "load:parse")
    /\ UNCHANGED <<store, seqVars, lock_writer, lock_readers, calls>>

\* log_open: pthread_rwlock_rdlock in config_get_bool / config_get
mt_log_open_rdlock(t, rd) ==
    /\ At(t, "log_open:rdlock")
    /\ IF lock_writer = t
       THEN /\ Goto(t, IF rd = "deadlock" THEN "deadlocked" ELSE "log_open:read")
            /\ UNCHANGED lock_readers
       ELSE /\ CanRdlock(t)
            /\ lock_readers' = [lock_readers EXCEPT ![t] = @ + 1]
            /\ Goto(t, "log_open:read")
    /\ UNCHANGED <<store, logVars, seqVars, lock_writer, local, calls>>

\* log_open: the lookup and the pthread_rwlock_unlock of config_get_bool /
\* config_get; after the last of them the channel is opened
mt_log_open_read(t) ==
    /\ At(t, "log_open:read")
    /\ Unlock(t, "ignored")
    /\ IF local[t].n = Len(LogOpenKeys)
       THEN /\ SetLogger(log_open_finish(Logger, log_open_ident_buf, "stack"))
            /\ Goto(t, local[t].after)
            /\ UNCHANGED local
       ELSE /\ SetLogger(log_open_read(Logger, local[t].n))
            /\ SetLocal(t, [local[t] EXCEPT !.n = @ + 1])
            /\ Goto(t, "log_open:rdlock")
    /\ UNCHANGED <<store, seqVars, calls>>

\* config_load from the assignment of config to its return
LoadRest(t, un) ==
    LET r == load_store(iniparser_load(local[t].file), overrides) IN
    /\ config' = r.config
    /\ overrides' = r.overrides
    /\ IF r.crash
       THEN Goto(t, "crashed") /\ UNCHANGED <<lock_writer, lock_readers, local>>
       ELSE Unlock(t, un) /\ Return(t)
    /\ UNCHANGED <<defaults, seqVars, calls>>

\* config = iniparser_load(file): a file that does not parse is reported
\* through config_logger_, which emits with log_vprintf
mt_load_parse(t, un) ==
    /\ At(t, "load:parse")
    /\ IF iniparser_load(local[t].file) = NullDict /\ ~log_is_open /\ log_use_config
       THEN /\ LogEmit(t, local[t], "load:assign")
            /\ UNCHANGED <<store, seqVars, lock_writer, lock_readers, calls>>
       ELSE /\ LoadRest(t, un)
            /\ SetLogger(IF iniparser_load(local[t].file) = NullDict
                         THEN log_ensure_open(Logger) ELSE Logger)

mt_load_assign(t, un) ==
    /\ At(t, "load:assign")
    /\ LoadRest(t, un)
    /\ UNCHANGED logVars

(* config_geta *)

mt_geta_lock(t, key, defval) ==
    /\ Enter(t)
    /\ CanRdlock(t)
    /\ lock_readers' = [lock_readers EXCEPT ![t] = @ + 1]
    /\ Goto(t, "geta:locked")
    /\ SetLocal(t, [op |-> "config_geta", key |-> key, defval |-> defval])
    /\ UNCHANGED <<store, logVars, seqVars, lock_writer>>

mt_geta_body(t) ==
    /\ At(t, "geta:locked")
    /\ Unlock(t, "ignored")
    /\ Return(t)
    /\ UNCHANGED <<store, logVars, seqVars, calls>>

(* config_get_all *)

\* dict is the dictionary the pointer taken under the lock refers to
mt_get_all_lock(t, section, key, fn) ==
    LET dict == IF config # NullDict THEN config ELSE overrides IN
    /\ Enter(t)
    /\ CanRdlock(t)
    /\ lock_readers' = [lock_readers EXCEPT ![t] = @ + 1]
    /\ IF dict = NullDict
       THEN Goto(t, "crashed") /\ UNCHANGED local
       ELSE /\ Goto(t, "get_all:loop")
            /\ SetLocal(t, [op |-> "config_get_all", section |-> section, key |-> key,
                            fn |-> fn, dict |-> dict, c |-> 1, r |-> 0])
    /\ UNCHANGED <<store, logVars, seqVars, lock_writer>>

\* one turn of the loop
mt_get_all_step(t) ==
    LET l == local[t] IN
    /\ At(t, "get_all:loop")
    /\ IF l.c > Len(l.dict)
       THEN Goto(t, "get_all:unlock") /\ UNCHANGED local
       ELSE IF /\ section_match(l.dict[l.c].key, l.section, l.key)
               /\ fn_result(l.fn, l.dict[l.c].key, l.dict[l.c].val) # 0
       THEN Goto(t, "get_all:unlock") /\ SetLocal(t, [l EXCEPT !.r = -1])
       ELSE SetLocal(t, [l EXCEPT !.c = @ + 1]) /\ UNCHANGED pc
    /\ UNCHANGED <<store, logVars, seqVars, lock_writer, lock_readers, calls>>

mt_get_all_unlock(t) ==
    /\ At(t, "get_all:unlock")
    /\ Unlock(t, "ignored")
    /\ Return(t)
    /\ UNCHANGED <<store, logVars, seqVars, calls>>

(* log_set_use_config: the logger takes no lock *)

mt_log_set_use_config(t, val) ==
    /\ Enter(t)
    /\ SetLogger(log_set_use_config_(Logger, val))
    /\ UNCHANGED <<store, seqVars, lock_writer, lock_readers, pc, local>>

----------------------------------------------------------------------------

Init ==
    /\ defaults = NullDict
    /\ overrides = NullDict
    /\ config = NullDict
    /\ log_is_open = FALSE
    /\ log_use_config = FALSE
    /\ log_stderr = 0
    /\ log_level = LOG_NOTICE
    /\ log_facility = LOG_DAEMON
    /\ log_syslog = 1
    /\ log_ident = "(unknown)"
    /\ syslog_conn = ClosedConn
    /\ proc = "running"
    /\ last = Returned("none", 0)
    /\ lock_writer = NULL
    /\ lock_readers = [t \in Threads |-> 0]
    /\ pc = [t \in Threads |-> "idle"]
    /\ local = [t \in Threads |-> Idle]
    /\ calls = 0

Next ==
    \/ \E alloc \in AllocOutcomes :
          \* the callback is not reached when an allocation fails
          \E cb \in IF alloc = "ok" THEN DefaultsCallbacks ELSE {NoCallback} :
             config_init(cb, alloc)
    \/ \E path \in DefaultPaths :
          \* the lock calls have one outcome unless log_open reads the store
          \E rd \in IF ~log_is_open /\ log_use_config
                     THEN RdlockOutcomes ELSE {"EDEADLK"},
             un \in IF ~log_is_open /\ log_use_config
                     THEN UnlockOutcomes ELSE {"ignored"} :
             config_load(path, rd, un)
    \/ \E kv \in SetInputs : config_set(kv[1], kv[2])
    \/ \E kv \in DefaultInputs : config_set_default(kv[1], kv[2])
    \/ \E kd \in LookupInputs : config_geta(kd[1], kd[2])
    \/ \E a \in GetAllInputs : config_get_all(a[1], a[2], a[3])
    \/ log_reset
    \/ \E v \in BOOLEAN : log_set_use_config(v)

Spec == Init /\ [][Next]_vars

NextMT ==
    \E t \in Threads :
        \/ \E cb \in MTCallbacks, alloc \in AllocOutcomes : mt_init_lock(t, cb, alloc)
        \/ mt_init_body(t)
        \/ mt_init_cb(t)
        \/ \E kv \in MTDefaultInputs : mt_set_default_lock(t, kv[1], kv[2])
        \/ mt_set_default_cb_lock(t)
        \/ mt_set_default_body(t)
        \/ \E kv \in MTSetInputs : mt_set_lock(t, kv[1], kv[2])
        \/ mt_set_body(t)
        \/ \E path \in DefaultPaths : mt_load_lock(t, path)
        \/ mt_load_log(t)
        \/ \E rd \in RdlockOutcomes : mt_log_open_rdlock(t, rd)
        \/ mt_log_open_read(t)
        \/ \E un \in UnlockOutcomes : mt_load_parse(t, un)
        \/ \E un \in UnlockOutcomes : mt_load_assign(t, un)
        \/ mt_geta_lock(t, KeyAX, NULL)
        \/ mt_geta_body(t)
        \/ mt_get_all_lock(t, SecA, NullKey, {})
        \/ mt_get_all_step(t)
        \/ mt_get_all_unlock(t)
        \/ \E v \in BOOLEAN : mt_log_set_use_config(t, v)

SpecMT == Init /\ [][NextMT]_vars

----------------------------------------------------------------------------
(* SpecLog: one caller of the logger and of the store keys the logger reads *)

LogDefaultInputs == {<<KeyLogLevel, "debug">>, <<KeyLogSyslog, "no">>}
LogSetInputs == {<<KeyLogStderr, "yes">>}
IdentInputs == {"app"}
LevelInputs == {LOG_DEBUG}
FacilityInputs == {LOG_LOCAL0}
StderrInputs == {1}
SyslogInputs == {0, 1}
EmitLevels == {LOG_ERR, LOG_DEBUG}

NextLog ==
    \/ config_init(NoCallback, "ok")
    \/ \E kv \in LogDefaultInputs : config_set_default(kv[1], kv[2])
    \/ \E kv \in LogSetInputs : config_set(kv[1], kv[2])
    \/ \E ident \in IdentInputs : log_set_ident(ident)
    \/ \E level \in LevelInputs : log_set_level(level)
    \/ \E facility \in FacilityInputs : log_set_facility(facility)
    \/ \E val \in StderrInputs : log_set_stderr(val)
    \/ \E val \in SyslogInputs : log_set_syslog(val)
    \/ \E val \in BOOLEAN : log_set_use_config(val)
    \/ log_reset
    \/ \E level \in EmitLevels, dangling \in DanglingOutcomes : log_vprintf(level, dangling)

SpecLog == Init /\ [][NextLog]_vars

----------------------------------------------------------------------------
(* SpecGet: the lookups as functions of what the store holds for a key *)

\* the values the store holds for log:stderr
StoredValues ==
    {"Y", "yes", "T", "true", "1", "10", "y", "t", "0", "no", "false", "off",
     "2", "-1", " 3", "+0", "007", "1e3", "x7", "", NULL}

\* the largest bufsize passed to config_get
MaxBufSize == 8

GetKeys == {KeyLogStderr, KeyLogLevel}
IntDefaults == {0, 1, -2}
GetFallbacks == {NULL, "notice"}

\* the store after config_init and one config_set_default("log:stderr", v),
\* or after config_init alone
InitGet ==
    /\ defaults \in {<<Entry(KeyLogStderr, v)>> : v \in StoredValues} \cup {dictionary_new}
    /\ overrides = dictionary_new
    /\ config = NullDict
    /\ log_is_open = FALSE
    /\ log_use_config = FALSE
    /\ log_stderr = 0
    /\ log_level = LOG_NOTICE
    /\ log_facility = LOG_DAEMON
    /\ log_syslog = 1
    /\ log_ident = "(unknown)"
    /\ syslog_conn = ClosedConn
    /\ proc = "running"
    /\ last = Returned("none", 0)
    /\ lock_writer = NULL
    /\ lock_readers = [t \in Threads |-> 0]
    /\ pc = [t \in Threads |-> "idle"]
    /\ local = [t \in Threads |-> Idle]
    /\ calls = 0

NextGet ==
    \/ \E k \in GetKeys, d \in IntDefaults : config_get_bool(k, d)
    \/ \E k \in GetKeys, d \in IntDefaults : config_get_int(k, d)
    \/ \E k \in GetKeys, d \in GetFallbacks, b \in BOOLEAN, n \in 0..MaxBufSize :
          config_get(k, d, b, n)
    \/ \E k \in GetKeys, d \in GetFallbacks : config_geta(k, d)

SpecGet == InitGet /\ [][NextGet]_vars

----------------------------------------------------------------------------
(* Properties of the configuration store, checked under Spec *)

ValueOf(d, key) == d[CHOOSE i \in 1..Len(d) : d[i].key = key].val

\* The resolution order of the store, stated on the three dictionaries.
Resolve(key, fallback) ==
    IF config # NullDict /\ HasKey(config, key) THEN ValueOf(config, key)
    ELSE IF config = NullDict /\ HasKey(overrides, key) THEN ValueOf(overrides, key)
    ELSE IF HasKey(defaults, key) THEN ValueOf(defaults, key)
    ELSE fallback

\* Every call that returns leaves its name in last, and a call that does
\* not return leaves the running state: Step(op) is a step in which the call
\* op returned.
Step(op) == proc' \in {"running", "undefined"} /\ last'.op = op

\* a config_load step that returned 0
LoadSucceeds == Step("config_load") /\ last'.ret = 0

\* a config_load step in which iniparser_load returned NULL
ParseFails ==
    /\ Step("config_load")
    /\ \E p \in DefaultPaths :
          /\ last'.default_path = p
          /\ iniparser_load(config_get_unlocked_(ConfigFileKey, p)) = NullDict

\* C1: a lookup returns config[K] if config exists and has K; else
\* overrides[K] if config does not exist and overrides has K; else
\* defaults[K] if defaults has K; else the caller's fallback.
C1_Resolution ==
    [][ Step("config_geta") => last'.ret = Resolve(last'.key, last'.defval) ]_vars

\* C1 witness: a lookup of a key that the loaded file and the defaults both
\* define, with different values, returned the file's value.
C1_Witness ==
    /\ proc = "running"
    /\ last.op = "config_geta"
    /\ config # NullDict /\ HasKey(config, last.key)
    /\ HasKey(defaults, last.key)
    /\ ValueOf(config, last.key) = "f1"
    /\ ValueOf(defaults, last.key) # "f1"
    /\ last.ret = "f1"

\* C2: when config_load succeeds, every key K that config_set recorded
\* before it resolves to the value of the last config_set(K, V), whatever
\* the file and the defaults say about K; and a key that config holds keeps
\* its resolution over every later step except a config_set of that key and
\* a config_load.
C2_OverrideWins ==
    [][ /\ LoadSucceeds =>
             \A k \in Keys : HasKey(overrides, k) =>
                \A d \in Fallbacks :
                    config_get_unlocked_(k, d)' = ValueOf(overrides, k)
        /\ \A k \in Keys :
             ( /\ HasKey(config, k)
               /\ ~(Step("config_set") /\ last'.key = k)
               /\ ~Step("config_load")
               /\ proc' # "crashed" )
             => \A d \in Fallbacks :
                    config_get_unlocked_(k, d)' = config_get_unlocked_(k, d)
      ]_vars

\* C2 witness: a load has succeeded, the file loaded defines a:x as "f1", a
\* default exists for a:x, and a:x resolves to the override "o2".
C2_Witness ==
    /\ last.op = "config_load" /\ last.ret = 0
    /\ overrides = NullDict
    /\ HasKey(config, KeyABX)
    /\ HasKey(defaults, KeyAX)
    /\ config_get_unlocked_(KeyAX, NULL) = "o2"

\* C3: config_set_default(K, D), called while defaults exists and neither
\* overrides nor config has K, makes K resolve to D, never to the fallback;
\* and after a successful load whose file does not define K, a key with a
\* default and no override still resolves to its default.
C3_DefaultUsed ==
    [][ /\ \A k \in Keys :
             ( /\ Step("config_set_default") /\ last'.key = k
               /\ defaults # NullDict
               /\ ~HasKey(overrides, k)
               /\ ~HasKey(config, k) )
             => \A d \in Fallbacks : config_get_unlocked_(k, d)' = last'.value
        /\ LoadSucceeds =>
             \A k \in Keys :
                (HasKey(defaults, k) /\ ~HasKey(overrides, k) /\ ~HasKey(config', k))
                => \A d \in Fallbacks :
                      config_get_unlocked_(k, d)' = ValueOf(defaults, k)
      ]_vars

\* C3 witness: after a successful load of a file that does not define a:y,
\* the lookup of a:y with a non-null fallback returned the default "d3".
C3_Witness ==
    /\ proc = "running"
    /\ last.op = "config_geta"
    /\ last.key = KeyAY
    /\ last.defval = "/etc/x.conf"
    /\ last.ret = "d3"
    /\ config # NullDict
    /\ ~HasKey(config, KeyAY)

Absent(key) ==
    ~HasKey(config, key) /\ ~HasKey(overrides, key) /\ ~HasKey(defaults, key)

\* C4: a lookup of a key that config, overrides and defaults all lack
\* returns the caller's fallback unchanged, and no lookup (config_geta,
\* config_get_all) changes any of the three dictionaries.
C4_FallbackExact ==
    [][ /\ Step("config_geta") =>
             /\ UNCHANGED store
             /\ Absent(last'.key) => last'.ret = last'.defval
        /\ Step("config_get_all") => UNCHANGED store
      ]_vars

\* C4 witness: with a file loaded, a lookup of a key absent from all three
\* dictionaries returned the non-null fallback it was given.
C4_Witness ==
    /\ proc = "running"
    /\ last.op = "config_geta"
    /\ config # NullDict
    /\ Absent(last.key)
    /\ last.defval = "/etc/x.conf"
    /\ last.ret = "/etc/x.conf"

\* the resolution left when config is absent: overrides, defaults, fallback
OverrideThenDefault(key, fallback) ==
    IF HasKey(overrides, key) THEN ValueOf(overrides, key)
    ELSE IF HasKey(defaults, key) THEN ValueOf(defaults, key)
    ELSE fallback

FailedLoadEffect ==
    /\ last'.ret = -1
    /\ config' = NullDict
    /\ overrides' # NullDict
    /\ overrides' = overrides
    /\ defaults' = defaults
    /\ \A k \in Keys, d \in Fallbacks :
          config_get_unlocked_(k, d)' = OverrideThenDefault(k, d)

\* C5 as claimed: whenever the parse of config_load fails, from any prior
\* state of an initialized store (defaults exists), the call returns -1,
\* config is absent, the overrides dictionary still exists with every
\* override, defaults is unchanged, and lookups resolve through overrides,
\* defaults, fallback.
C5_FailedLoadAnyState ==
    [][ (ParseFails /\ defaults # NullDict) => FailedLoadEffect ]_vars

\* C5 as amended: the same, for a failed load from a state in which the
\* overrides dictionary exists.
C5_FailedLoad == [][ (ParseFails /\ overrides # NullDict) => FailedLoadEffect ]_vars

\* C5 witness: a load has failed, an override is still pending, and
\* global:configFile resolves to the fallback "/etc/x.conf".
C5_Witness ==
    /\ proc = "running"
    /\ last.op = "config_load" /\ last.ret = -1
    /\ config = NullDict
    /\ overrides # NullDict /\ HasKey(overrides, KeyAX)
    /\ config_get_unlocked_(ConfigFileKey, "/etc/x.conf") = "/etc/x.conf"

\* C6 as claimed: in every state in which the store has a dictionary to
\* write to, config_set(K, V) writes into overrides if config is absent and
\* into config if a file has been loaded, and K then resolves to V.
C6_SetThenGet ==
    [][ \A k \in Keys :
          ( /\ Step("config_set") /\ last'.key = k
            /\ (overrides # NullDict \/ config # NullDict) )
          => /\ IF config = NullDict
                THEN /\ overrides' = iniparser_set(overrides, k, last'.value)
                     /\ config' = config
                ELSE /\ config' = iniparser_set(config, k, last'.value)
                     /\ overrides' = overrides
             /\ \A d \in Fallbacks : config_get_unlocked_(k, d)' = last'.value
      ]_vars

\* the entries config_get_all is to visit, stated with prefixes and suffixes
HasPrefix(s, prefix) ==
    Len(s) >= Len(prefix) /\ SubSeq(s, 1, Len(prefix)) = prefix

Selected(dict, section, key) ==
    LET Wanted(e) ==
            /\ HasPrefix(e.key, section \o <<":">>)
            /\ key # NullKey => e.key = section \o <<":">> \o key
    IN SelectSeq(dict, Wanted)

ExpectedVisits(dict, section, key, fn) ==
    LET sel == Selected(dict, section, key)
        stops == {i \in 1..Len(sel) : sel[i].key \in fn}
        first == CHOOSE i \in stops : \A j \in stops : i <= j
    IN IF stops = {} THEN [ret |-> 0, visited |-> sel]
       ELSE [ret |-> -1, visited |-> SubSeq(sel, 1, first)]

\* C8: config_get_all(section, key, cb) invokes cb, in dictionary order, on
\* exactly the entries of the resolved dictionary (config if it exists, else
\* overrides) whose key starts with "section:" and, when key is non-null,
\* equals "section:key"; it stops after the first invocation that returns
\* non-zero and returns -1, and returns 0 if none does.
C8_GetAll ==
    [][ Step("config_get_all") =>
          LET dict == IF config # NullDict THEN config ELSE overrides
              e == ExpectedVisits(dict, last'.section, last'.key, last'.fn)
          IN last'.visited = e.visited /\ last'.ret = e.ret
      ]_vars

\* C8 witness: an iteration over section "a" of the loaded file a.conf, in
\* which the key ab:x shares the first letter but not the section, stopped
\* at a:x with -1.
C8_Witness ==
    /\ proc = "running"
    /\ last.op = "config_get_all"
    /\ last.section = SecA /\ last.key = NullKey
    /\ HasKey(config, KeyABX)
    /\ last.visited = <<Entry(KeyAX, "f1")>>
    /\ last.ret = -1

\* C8 second witness state: a full iteration of the pending overrides
C8_WitnessOverrides ==
    /\ proc = "running"
    /\ last.op = "config_get_all"
    /\ config = NullDict
    /\ Len(last.visited) = 1
    /\ last.ret = 0

\* C17 as claimed: the overrides and config dictionaries never both exist;
\* while config exists the overrides dictionary, absent since the load,
\* stays absent whatever is called; and a load succeeds only from the
\* INITIALIZED state (config absent, overrides pending), so that the step
\* from INITIALIZED to LOADED is taken once.
C17_Lifecycle ==
    [][ /\ ~(overrides' # NullDict /\ config' # NullDict)
        /\ (config # NullDict /\ overrides = NullDict /\ config' # NullDict)
              => overrides' = NullDict
        /\ LoadSucceeds => config = NullDict
      ]_vars

----------------------------------------------------------------------------
(* Properties of the lookups, checked under SpecGet *)

\* the decimal number a byte string starts with, read digit by digit from
\* its most significant digit: white space, an optional sign, digits
RECURSIVE DigitRun(_, _)
DigitRun(b, i) ==
    IF i <= Len(b) /\ b[i] \in {"0","1","2","3","4","5","6","7","8","9"}
    THEN <<b[i]>> \o DigitRun(b, i + 1) ELSE <<>>

RECURSIVE Pow10(_)
Pow10(n) == IF n = 0 THEN 1 ELSE 10 * Pow10(n - 1)

DigitOf(c) ==
    CASE c = "0" -> 0 [] c = "1" -> 1 [] c = "2" -> 2 [] c = "3" -> 3 [] c = "4" -> 4
      [] c = "5" -> 5 [] c = "6" -> 6 [] c = "7" -> 7 [] c = "8" -> 8 [] c = "9" -> 9

RECURSIVE SumDigits(_, _)
SumDigits(ds, i) ==
    IF i > Len(ds) THEN 0
    ELSE DigitOf(ds[i]) * Pow10(Len(ds) - i) + SumDigits(ds, i + 1)

RECURSIVE SkipSpace(_, _)
SkipSpace(b, i) == IF i <= Len(b) /\ b[i] = " " THEN SkipSpace(b, i + 1) ELSE i

DecimalParse(b) ==
    LET i == SkipSpace(b, 1)
        signed == i <= Len(b) /\ b[i] \in {"+", "-"}
        n == SumDigits(DigitRun(b, IF signed THEN i + 1 ELSE i), 1)
    IN IF signed /\ b[i] = "-" THEN 0 - n ELSE n

\* C11: config_get_bool(K, defval) returns -1 when the string K resolves to
\* starts with Y, T or 1 in either case, otherwise -1 or 0 as the decimal
\* parse of the string is non-zero or zero ("0", "no", "false" give 0), and
\* -1 or 0 as defval is non-zero or zero when K resolves to nothing; it
\* returns no other value than 0 and -1.
C11_BoolParse ==
    [][ Step("config_get_bool") =>
          LET s == Resolve(last'.key, NULL)
              b == Bytes(s)
              truthy == IF s = NULL THEN last'.defval # 0
                        ELSE \/ Len(b) > 0 /\ b[1] \in {"Y", "y", "T", "t", "1"}
                             \/ DecimalParse(b) # 0
          IN /\ last'.ret \in {0, -1}
             /\ last'.ret = -1 <=> truthy
             /\ s \in {"Y", "yes", "T", "true", "1"} => last'.ret = -1
             /\ s \in {"0", "no", "false"} => last'.ret = 0
      ]_vars

\* C11 witness: with defval 0, the stored string "true" was read as -1.
C11_Witness ==
    /\ last.op = "config_get_bool"
    /\ last.defval = 0
    /\ Resolve(last.key, NULL) = "true"
    /\ last.ret = -1

\* what config_get leaves in the buffer, against the string config_geta
\* returns for the same key and fallback in the same state
BufferAgrees ==
    LET g == config_geta_(last'.key, last'.defval)
    IN last'.filled /\ ~g.null /\ CString(last'.buf) = g.str

\* C12 as claimed: for every key, fallback, buffer size and store state,
\* the buffer config_get fills holds the string config_geta returns.
C12_RoundTripAnySize == [][ Step("config_get") => BufferAgrees ]_vars

\* C12 as amended: with a buffer of bufsize bytes, bufsize at least the
\* length config_get returns (strlen + 1) and the key resolving to a
\* string, the buffer holds the string config_geta returns; a smaller
\* non-empty buffer holds its first bufsize - 1 bytes; when the key resolves
\* to nothing config_geta returns NULL and the buffer holds the empty
\* string; without a buffer, or with bufsize 0, nothing is written.
C12_RoundTrip ==
    [][ Step("config_get") =>
          LET g == config_geta_(last'.key, last'.defval)
              n == last'.bufsize
          IN /\ last'.filled <=> (last'.has_buf /\ n > 0)
             /\ last'.ret = IF g.null THEN 0 ELSE Len(g.str) + 1
             /\ (last'.filled /\ ~g.null /\ n >= last'.ret) => BufferAgrees
             /\ (last'.filled /\ ~g.null /\ n < last'.ret)
                   => CString(last'.buf) = SubSeq(g.str, 1, n - 1)
             /\ (last'.filled /\ g.null) => CString(last'.buf) = <<>>
      ]_vars

\* C12 witness: config_get copied the whole of "false" into a buffer of
\* more than six bytes.
C12_Witness ==
    /\ last.op = "config_get"
    /\ last.filled
    /\ last.ret = 6 /\ last.bufsize > 6
    /\ CString(last.buf) = <<"f", "a", "l", "s", "e">>
    /\ Resolve(last.key, last.defval) = "false"

----------------------------------------------------------------------------
(* Properties of the logger, checked under SpecLog *)

SetterOps ==
    {"log_set_ident", "log_set_level", "log_set_facility", "log_set_stderr",
     "log_set_syslog"}

logFields == <<log_stderr, log_level, log_facility, log_syslog, log_ident>>

\* C13: after log_set_ident, log_set_level, log_set_facility,
\* log_set_stderr or log_set_syslog, from any Logger state, the field
\* written holds the new value, use_config is off and is_open is false; and
\* the next emission, finding the channel closed in direct-values mode,
\* opens it with the fields as the setters left them.
C13_SettersReset ==
    [][ /\ Step("log_set_ident") => log_ident' = last'.val
        /\ Step("log_set_level") => log_level' = last'.val
        /\ Step("log_set_facility") => log_facility' = last'.val
        /\ Step("log_set_stderr") => log_stderr' = last'.val
        /\ Step("log_set_syslog") => log_syslog' = last'.val
        /\ (last'.op \in SetterOps /\ Step(last'.op))
              => ~log_use_config' /\ ~log_is_open'
        /\ (Step("log_vprintf") /\ ~log_is_open /\ ~log_use_config)
              => /\ log_is_open'
                 /\ UNCHANGED <<logFields, log_use_config>>
                 /\ log_syslog # 0 =>
                       syslog_conn' = openlog(Bytes(log_ident), "static",
                                              log_stderr # 0, log_facility)
      ]_vars

\* C13 witness: log_set_level(LOG_DEBUG) has returned in a Logger that had
\* opened its channel from the store before (the facility is the store's
\* "user"): the level is written, use_config is off, the channel is closed.
C13_Witness ==
    /\ last.op = "log_set_level" /\ last.val = LOG_DEBUG
    /\ log_level = LOG_DEBUG
    /\ log_facility = LOG_USER
    /\ ~log_use_config /\ ~log_is_open

\* C14: log_set_use_config(v) changes nothing of the Logger, the open
\* channel included, when use_config is v already; otherwise it sets
\* use_config to v, sets is_open to false and closes the system-log
\* connection of the open channel, leaving the other fields unchanged.
C14_UseConfigToggle ==
    [][ Step("log_set_use_config") =>
          IF log_use_config = last'.val
          THEN UNCHANGED logVars
          ELSE /\ log_use_config' = last'.val
               /\ ~log_is_open'
               /\ (log_is_open /\ log_syslog # 0) => syslog_conn' = ClosedConn
               /\ UNCHANGED logFields
      ]_vars

\* C14 witness: log_set_use_config(TRUE) returned with use_config on and
\* the channel still open with its system-log connection.
C14_Witness ==
    /\ last.op = "log_set_use_config" /\ last.val = TRUE
    /\ log_use_config /\ log_is_open /\ syslog_conn.live

\* C15: an emission opens the channel if it is not open and leaves an open
\* channel as it is; the message is dropped exactly when its level is
\* greater than the level in effect after that; a message not dropped is
\* delivered once, to the system log if log_syslog is set and else to
\* standard error with log_ident as prefix.
C15_Emission ==
    [][ Step("log_vprintf") =>
          /\ log_is_open'
          /\ log_is_open => UNCHANGED logVars
          /\ (~log_is_open /\ log_syslog' # 0)
                => syslog_conn'.live /\ syslog_conn'.facility = log_facility'
          /\ last'.delivered = <<>> <=> last'.level > log_level'
          /\ last'.delivered # <<>> =>
                /\ Len(last'.delivered) = 1
                /\ last'.delivered[1].level = last'.level
                /\ IF log_syslog' # 0
                   THEN last'.delivered[1].to = "syslog"
                   ELSE /\ last'.delivered[1].to = "stderr"
                        /\ last'.delivered[1].prefix = log_ident'
      ]_vars

\* C15 witness: after log_set_ident("app"), a message at debug level went
\* to standard error with the prefix "app".
C15_Witness ==
    /\ last.op = "log_vprintf" /\ last.level = LOG_DEBUG
    /\ Len(last.delivered) = 1
    /\ last.delivered[1].to = "stderr"
    /\ last.delivered[1].prefix = "app"

\* C16 as claimed: with use_config on, an emission that finds the channel
\* closed sets level, facility, stderr flag and syslog flag from log:level,
\* log:facility, log:stderr and log:syslog (defaults notice, user, false,
\* true) and emits with them and with the identity of log:ident (default
\* "(none)"): the threshold, the route, and the identity of the message; an
\* emission that finds the channel open leaves the Logger as it is.
C16_ConfigSettings ==
    [][ /\ (Step("log_vprintf") /\ log_is_open) => UNCHANGED logVars
        /\ (Step("log_vprintf") /\ ~log_is_open /\ log_use_config) =>
              LET level == log_parse_level(Bytes(Resolve(KeyLogLevel, "notice")))
                  facility == log_parse_facility(Bytes(Resolve(KeyLogFacility, "user")))
                  ident == Resolve(KeyLogIdent, "(none)")
              IN /\ log_level' = level
                 /\ log_facility' = facility
                 /\ log_stderr' = config_get_bool_(KeyLogStderr, 0)
                 /\ log_syslog' = config_get_bool_(KeyLogSyslog, 1)
                 /\ last'.delivered = <<>> <=> last'.level > level
                 /\ last'.delivered # <<>> =>
                       IF config_get_bool_(KeyLogSyslog, 1) # 0
                       THEN /\ last'.delivered[1].to = "syslog"
                            /\ last'.delivered[1].tag = Bytes(ident)
                       ELSE /\ last'.delivered[1].to = "stderr"
                            /\ last'.delivered[1].prefix = ident
      ]_vars

\* C19: is_open is true exactly when the channel handle is live: an open
\* channel routed to the system log has its connection, and no connection
\* to the system log is live while is_open is false.
C19_HandleTracked ==
    /\ (log_is_open /\ log_syslog # 0) => syslog_conn.live
    /\ ~log_is_open => ~syslog_conn.live

----------------------------------------------------------------------------
(* Properties of the locking, checked under SpecMT *)

\* positions from which the thread's next step reads and then creates,
\* changes, replaces or frees a dictionary
WritePositions ==
    {"init:locked", "set:locked", "set_default:locked",
     "load:locked", "load:parse", "load:assign"}

\* positions from which the thread's next step reads a dictionary for a
\* lookup of the get family or for config_get_all
ReadPositions == {"geta:locked", "get_all:loop", "log_open:read"}

\* C7 as claimed: a thread about to create, change, replace or free a
\* dictionary holds config_lock for writing, and a thread about to read one
\* in a lookup holds config_lock (for reading, or is itself the writer), so
\* that no thread reads or writes a dictionary while another thread writes.
C7_LockDiscipline ==
    \A t \in Threads :
        /\ pc[t] \in WritePositions => lock_writer = t
        /\ pc[t] \in ReadPositions =>
              /\ lock_readers[t] > 0 \/ lock_writer = t
              /\ \A u \in Threads \ {t} : pc[u] \notin WritePositions

\* C9 as claimed: while a thread is inside the loop of config_get_all, no
\* step changes any of the three dictionaries.
C9_IterationStable ==
    [][ (\E t \in Threads : pc[t] = "get_all:loop" /\ pc'[t] # "idle")
          => UNCHANGED store ]_vars

\* C10 as claimed: no call blocks forever on config_lock, and a thread that
\* is not inside a call holds no lock.
C10_CallsReturn ==
    \A t \in Threads :
        /\ pc[t] # "deadlocked"
        /\ pc[t] = "idle" => (lock_writer # t /\ lock_readers[t] = 0)

\* C20 as claimed: a config_load called in the LOADED state (config exists,
\* overrides freed) whose file parses does not hang before the merge loop,
\* and its step from the parse into the merge loop ends in the crash state,
\* with the write lock held by the caller.
C20_SecondLoadCrashes ==
    [][ \A t \in Threads :
          /\ ( /\ local[t].op = "config_load"
               /\ config # NullDict /\ overrides = NullDict )
               => pc'[t] # "deadlocked"
          /\ ( /\ pc[t] \in {"load:parse", "load:assign"}
               /\ pc'[t] # pc[t]
               /\ config # NullDict /\ overrides = NullDict
               /\ iniparser_load(local[t].file) # NullDict )
               => /\ pc'[t] = "crashed"
                  /\ lock_writer = t /\ lock_writer' = t
      ]_vars

====
